---------------------------- MODULE Spec2Model ----------------------------
(***************************************************************************)
(* Production & inventory dashboard (streamlit_app.py): the lock guard,    *)
(* the sheet store, the relational mirror, the Excel -> DB import, the     *)
(* save handlers and the finished-goods movement handler.                  *)
(*                                                                         *)
(* Data frames are [cols, rows]: a sequence of column names and a sequence *)
(* of rows, each row a sequence of cells aligned with cols.  Quantities    *)
(* are REAL/float in the program and integers here.                        *)
(***************************************************************************)
EXTENDS Integers, Sequences, FiniteSets, TLC

\* ------------------------------------------------------------------ bounds
MaxMoves == 2
MaxOrders == 1
NumCallers == 2
MaxCalls == 2

\* ------------------------------------------------------------------- cells
Txt(s) == [k |-> "txt", s |-> s, n |-> 0]
Num(n) == [k |-> "num", s |-> "", n |-> n]
Null == [k |-> "null", s |-> "", n |-> 0]

\* str(cell): what Series.astype(str) gives for a cell read back from SQLite
\* (an integer-valued float prints as such; NULL reads back as None).
AsStr(c) == IF c.k = "txt" THEN c.s ELSE IF c.k = "null" THEN "None" ELSE "<num>"

\* float(cell) of a quantity cell
AsFloat(c) == c.n

\* ------------------------------------------------------------- data frames
EmptyDF == [cols |-> <<>>, rows |-> <<>>]

Range(s) == {s[i] : i \in DOMAIN s}

HasCol(df, c) == c \in Range(df.cols)

ColIndex(df, c) == CHOOSE i \in DOMAIN df.cols : df.cols[i] = c

\* DataFrame.empty: any axis of length 0
df_empty(df) == Len(df.cols) = 0 \/ Len(df.rows) = 0

InjColumns == <<"sku", "nome", "quantidade", "unidade", "local">>

NewColumns == [cols |-> InjColumns, rows |-> <<>>]

\* pd.concat([df, pd.DataFrame([newrow])], ignore_index=True): the columns are
\* df's followed by newrow's that df lacks; a cell with no source is NaN.
concat(df, rcols, rcells) ==
    LET extra == SelectSeq(rcols, LAMBDA c : c \notin Range(df.cols))
        cols == df.cols \o extra
        pad == [i \in 1..Len(extra) |-> Null]
        cellOf(c) == IF c \in Range(rcols)
                       THEN rcells[CHOOSE i \in DOMAIN rcols : rcols[i] = c]
                       ELSE Null
    IN [cols |-> cols,
        rows |-> [i \in 1..Len(df.rows) |-> df.rows[i] \o pad]
                 \o << [i \in 1..Len(cols) |-> cellOf(cols[i])] >>]

\* ------------------------------------------------------------ sheet <-> df
\* DataFrame.to_excel(index=False): a header row, then one row per record.
\* openpyxl writes None and the empty string alike as an empty cell.
to_excel_cell(c) == IF c.k = "txt" /\ c.s = "" THEN Null ELSE c

to_excel(df) ==
    IF Len(df.cols) = 0 THEN <<>>
    ELSE << [i \in 1..Len(df.cols) |-> Txt(df.cols[i])] >>
         \o [r \in 1..Len(df.rows) |->
               [i \in 1..Len(df.rows[r]) |-> to_excel_cell(df.rows[r][i])]]

\* pd.read_excel: the first row names the columns; an empty cell, and a cell
\* holding '' (one of the default na_values), is NaN.
read_excel_cell(c) == IF c.k = "txt" /\ c.s = "" THEN Null ELSE c

read_excel_grid(grid) ==
    IF grid = <<>> THEN EmptyDF
    ELSE [cols |-> [i \in 1..Len(grid[1]) |-> grid[1][i].s],
          rows |-> [r \in 1..(Len(grid) - 1) |->
                      [i \in 1..Len(grid[r + 1]) |-> read_excel_cell(grid[r + 1][i])]]]


\* --------------------------------------------------------------- workbook
\* The file at XLSX_PATH: absent, a workbook (its sheets in order), or a file
\* that load_workbook / read_excel cannot open.
NoWorkbook == [state |-> "absent", sheets |-> <<>>]

CorruptWorkbook == [state |-> "corrupt", sheets |-> <<>>]

Workbook(sheets) == [state |-> "ok", sheets |-> sheets]

sheetnames(wb) == {wb.sheets[i].name : i \in DOMAIN wb.sheets}

HasSheet(wb, name) == wb.state = "ok" /\ name \in sheetnames(wb)

SheetGrid(wb, name) ==
    (wb.sheets[CHOOSE i \in DOMAIN wb.sheets : wb.sheets[i].name = name]).grid

\* how many sheets of the workbook carry this name
SheetCount(wb, name) == Cardinality({i \in DOMAIN wb.sheets : wb.sheets[i].name = name})

Keys(sheet_dfs) == {sheet_dfs[i].name : i \in DOMAIN sheet_dfs}

\* for name, df in sheet_dfs.items(): df.to_excel(writer, sheet_name=name)
AppendSheets(sheet_dfs) ==
    [i \in 1..Len(sheet_dfs) |->
        [name |-> sheet_dfs[i].name, grid |-> to_excel(sheet_dfs[i].df)]]

\* (faulty variant) the sheets to overwrite are not removed before the append
RemoveSheets_keep(wb, sheet_dfs) == wb.sheets

\* for name in sheet_dfs: if name in wb.sheetnames: wb.remove(wb[name])
RemoveSheets(wb, sheet_dfs) ==
    SelectSeq(wb.sheets, LAMBDA sh : sh.name \notin Keys(sheet_dfs))

\* The body of write_excel_sheets: [wb: the file afterwards, raised: whether it
\* raised].  load_workbook raises on an unreadable file.  wb.save of a workbook
\* left with no sheet raises (openpyxl: "At least one sheet must be visible")
\* after the file was opened for writing, which leaves it unreadable.
write_excel_sheets_body(wb, sheet_dfs) ==
    IF wb.state = "absent"
      THEN [wb |-> Workbook(AppendSheets(sheet_dfs)), raised |-> FALSE]
    ELSE IF wb.state = "corrupt"
      THEN [wb |-> wb, raised |-> TRUE]
    ELSE LET kept == RemoveSheets(wb, sheet_dfs)
         IN IF kept = <<>>
              THEN [wb |-> CorruptWorkbook, raised |-> TRUE]
              ELSE [wb |-> Workbook(kept \o AppendSheets(sheet_dfs)), raised |-> FALSE]

\* ------------------------------------------------------ relational mirror
TEstoqueMP == "estoque_mp"
TEstoqueInj == "estoque_injetados"
TProducao == "producao"
TOrdens == "ordens_producao"

Tables == {TEstoqueMP, TEstoqueInj, TProducao, TOrdens}

NoTable == [exists |-> FALSE, df |-> EmptyDF]

\* read_table: SELECT * FROM [table]; a missing table reads as pd.DataFrame()
read_table(d, table) == IF d[table].exists THEN d[table].df ELSE EmptyDF

\* DataFrame.to_sql(table, conn, if_exists="replace", index=False)
to_sql(d, table, df) == [d EXCEPT ![table] = [exists |-> TRUE, df |-> df]]

write_table(d, table, df) == to_sql(d, table, df)

\* --------------------------------------------------------- sheet mapping
SheetMP == "Estoque MP"
SheetInj == "Estoque Injetados"
SheetProd == "Producao - injecao+ Zamac"
SheetOrdens == "Ordens Producao"
SheetCustom == "Custom"

\* default_mapping, in its insertion order
default_mapping == << <<SheetMP, TEstoqueMP>>, <<SheetInj, TEstoqueInj>>,
                      <<SheetProd, TProducao>> >>

\* user_mapping[newname] = tbl: a dict; assigning an existing key keeps its
\* place and replaces its value.
DictSet(m, key, val) ==
    IF \E i \in DOMAIN m : m[i][1] = key
      THEN [i \in DOMAIN m |-> IF m[i][1] = key THEN <<key, val>> ELSE m[i]]
      ELSE Append(m, <<key, val>>)

RECURSIVE BuildMapping(_, _, _)
BuildMapping(inp, i, m) ==
    IF i > Len(default_mapping) THEN m
    ELSE BuildMapping(inp, i + 1,
                      DictSet(m, inp[default_mapping[i][2]], default_mapping[i][2]))

user_mapping(inp) == BuildMapping(inp, 1, <<>>)

\* list(user_mapping.keys())[list(user_mapping.values()).index(tbl)], and the
\* literal the handler falls back to when index raises
sheet_name_for(inp, tbl, fallback) ==
    LET m == user_mapping(inp)
    IN IF \E i \in DOMAIN m : m[i][2] = tbl
         THEN m[CHOOSE i \in DOMAIN m : m[i][2] = tbl][1]
         ELSE fallback

\* ------------------------------------------------------------ sync engine
\* (faulty variant) a sheet that cannot be read ends the loop instead of being skipped
RECURSIVE init_db_break_loop(_, _, _, _)
init_db_break_loop(d, wb, m, i) ==
    IF i > Len(m) THEN d
    ELSE IF wb.state = "ok" /\ m[i][1] \in {wb.sheets[j].name : j \in DOMAIN wb.sheets}
      THEN init_db_break_loop(
               [d EXCEPT ![m[i][2]] =
                   [exists |-> TRUE,
                    df |-> read_excel_grid(
                        (wb.sheets[CHOOSE j \in DOMAIN wb.sheets :
                                     wb.sheets[j].name = m[i][1]]).grid)]],
               wb, m, i + 1)
      ELSE d

init_db_from_excel_break(d, wb, m) == init_db_break_loop(d, wb, m, 1)

\* init_db_from_excel: for each (sheet, table) of the mapping, read the sheet
\* (an exception: continue) and replace the table.
RECURSIVE init_db_loop(_, _, _, _)
init_db_loop(d, wb, m, i) ==
    IF i > Len(m) THEN d
    ELSE IF HasSheet(wb, m[i][1])
      THEN init_db_loop(to_sql(d, m[i][2], read_excel_grid(SheetGrid(wb, m[i][1]))),
                        wb, m, i + 1)
      ELSE init_db_loop(d, wb, m, i + 1)

init_db_from_excel(d, wb, m) == init_db_loop(d, wb, m, 1)

\* ----------------------------------------------------------- stock ledger
\* The movement row INSERTed into movimentacao_injetados; id is INTEGER
\* PRIMARY KEY AUTOINCREMENT: larger than every id the table has held (rows are
\* never deleted, so larger than every id it holds).
RECURSIVE MaxId(_)
MaxId(ledger) ==
    IF ledger = <<>> THEN 0
    ELSE LET m == MaxId(Tail(ledger))
         IN IF Head(ledger).id > m THEN Head(ledger).id ELSE m

\* (faulty variant) the id of the last row is used again
next_id_reuse(ledger) == IF ledger = <<>> THEN 1 ELSE MaxId(ledger)

next_id(ledger) == MaxId(ledger) + 1

insert_movement(ledger, sku, nome, qty, motivo, operador, data) ==
    Append(ledger, [id |-> next_id(ledger), sku |-> sku, nome |-> nome, qty |-> qty,
                    motivo |-> motivo, operador |-> operador, data |-> data])

\* mask = df['sku'].astype(str) == str(sku)
sku_mask(df, sku) ==
    {i \in DOMAIN df.rows : AsStr(df.rows[i][ColIndex(df, "sku")]) = sku}

\* df.loc[mask, 'quantidade'] = df.loc[mask, 'quantidade'].astype(float) + float(qty)
add_to_masked(df, mask, qty) ==
    LET q == ColIndex(df, "quantidade")
    IN [df EXCEPT !.rows =
          [i \in DOMAIN df.rows |->
             IF i \in mask /\ df.rows[i][q].k = "num"
               THEN [df.rows[i] EXCEPT ![q] = Num(AsFloat(df.rows[i][q]) + qty)]
               ELSE df.rows[i]]]

\* newrow = {"sku":sku, "nome":nome, "quantidade":qty, "unidade":"", "local":""}
newrow(sku, nome, qty) == <<Txt(sku), Txt(nome), Num(qty), Txt(""), Txt("")>>

\* (faulty variant) a movement always appends a row, matching SKU or not
update_stock_append(df0, sku, nome, qty) ==
    concat(IF df_empty(df0) THEN NewColumns ELSE df0, InjColumns, newrow(sku, nome, qty))

\* The stock update of the movement handler on the table as read (the tables
\* of this model that have a sku column have a quantidade column).
update_stock(df0, sku, nome, qty) ==
    LET df == IF df_empty(df0) THEN NewColumns ELSE df0
    IN IF HasCol(df, "sku") /\ sku # ""
         THEN IF sku_mask(df, sku) # {}
                THEN add_to_masked(df, sku_mask(df, sku), qty)
                ELSE concat(df, InjColumns, newrow(sku, nome, qty))
         ELSE concat(df, InjColumns, newrow(sku, nome, qty))

\* ------------------------------------------------ BOM consumption engine
\* createOrder(productCode, quantity, bom); bom is a sequence of
\* [mp_id, qty_per_product].
need(item, quantity) == item.qty_per_product * quantity

\* the rows of the stock table matching a component id, in storage order
matching_rows(df, comp) ==
    IF HasCol(df, "mp_id") /\ HasCol(df, "quantidade")
      THEN SelectSeq([i \in DOMAIN df.rows |-> i],
                     LAMBDA i : AsStr(df.rows[i][ColIndex(df, "mp_id")]) = comp)
      ELSE <<>>

RECURSIVE SumQty(_, _)
SumQty(df, idx) ==
    IF idx = <<>> THEN 0
    ELSE AsFloat(df.rows[Head(idx)][ColIndex(df, "quantidade")]) + SumQty(df, Tail(idx))

available(df, comp) == SumQty(df, matching_rows(df, comp))

\* (faulty variant) only a component with no stock row counts as short
shortages_missing_only(df, bom, quantity) ==
    SelectSeq(bom, LAMBDA item : matching_rows(df, item.mp_id) = <<>>)

\* every short component, in BOM order
shortages(df, bom, quantity) ==
    SelectSeq(bom, LAMBDA item :
        matching_rows(df, item.mp_id) = <<>>
        \/ available(df, item.mp_id) < need(item, quantity))

\* subtract from each matching row up to its balance until the need is met
RECURSIVE consume_rows(_, _, _)
consume_rows(df, idx, left) ==
    IF idx = <<>> \/ left = 0 THEN df
    ELSE LET q == ColIndex(df, "quantidade")
             have == AsFloat(df.rows[Head(idx)][q])
             take == IF have < left THEN have ELSE left
         IN consume_rows([df EXCEPT !.rows[Head(idx)][q] = Num(have - take)],
                         Tail(idx), left - take)

RECURSIVE consume_bom(_, _, _)
consume_bom(df, bom, quantity) ==
    IF bom = <<>> THEN df
    ELSE consume_bom(consume_rows(df, matching_rows(df, Head(bom).mp_id),
                                  need(Head(bom), quantity)),
                     Tail(bom), quantity)

OrdensColumns == <<"id", "produto", "qtd", "data", "bom">>

RECURSIVE MaxOrderId(_)
MaxOrderId(rows) ==
    IF rows = <<>> THEN 0
    ELSE LET m == MaxOrderId(Tail(rows))
         IN IF Head(rows)[1].n > m THEN Head(rows)[1].n ELSE m

\* the production-order log with one more row: id = max existing id + 1, or 1
append_order(log0, produto, quantity, data, bomtext) ==
    LET log == IF df_empty(log0) THEN [cols |-> OrdensColumns, rows |-> <<>>] ELSE log0
    IN [log EXCEPT !.rows =
          Append(log.rows, <<Num(MaxOrderId(log.rows) + 1), Txt(produto),
                             Num(quantity), Num(data), Txt(bomtext)>>)]

\* ------------------------------------------------------------------ state
VARIABLES
    xlsx,          \* the file at XLSX_PATH
    db,            \* the tables of database.db: table name -> [exists, df]
    db_exists,     \* DB_PATH.exists()
    movimentacao,  \* the rows of movimentacao_injetados, in insertion order
    map_input,     \* the sidebar's sheet-name text inputs: table -> sheet name
    pc,            \* where the session's script run stands
    args,          \* the running handler's locals: the form's inputs, the frame to export
    op,            \* the handler the last step belongs to
    result,        \* its outcome: "running", "ok", "error"
    clock,         \* datetime.now(), as a logical clock
    lock,          \* LOCK_PATH.exists()
    lpc,           \* each concurrent caller's place in with_lock's wrapper
    calls          \* each concurrent caller's finished calls

vars == <<xlsx, db, db_exists, movimentacao, map_input, pc, args, op, result, clock,
          lock, lpc, calls>>

lockvars == <<lock, lpc, calls>>

datavars == <<xlsx, db, db_exists, movimentacao, map_input, pc, args, op, result, clock>>

\* ----------------------------------------------------------------- inputs
Row5(a, b, n, u, l) == <<Txt(a), Txt(b), Num(n), Txt(u), Txt(l)>>

MPColumns == <<"mp_id", "mp_nome", "quantidade", "unidade", "local">>

ProdColumns == <<"Data", "Maquina", "Produto", "Realizado">>

InjDup == [cols |-> InjColumns,
           rows |-> <<Row5("X", "Widget", 3, "un", "A"), Row5("X", "Widget", 4, "un", "B")>>]

InjNoSku == [cols |-> <<"nome", "quantidade">>, rows |-> << <<Txt("Widget"), Num(2)>> >>]

MPStock == [cols |-> MPColumns,
            rows |-> <<Row5("M1", "Resina", 3, "kg", "A"), Row5("M1", "Resina", 4, "kg", "B")>>]

MPLow == [cols |-> MPColumns, rows |-> <<Row5("M1", "Resina", 4, "kg", "A")>>]

ProdA == [cols |-> ProdColumns,
          rows |-> << <<Txt("d1"), Txt("Himaco 80"), Txt("P1"), Num(10)>> >>]

ProdB == [cols |-> ProdColumns,
          rows |-> << <<Txt("d1"), Txt("Himaco 80"), Txt("P1"), Num(12)>>,
                      <<Txt("d2"), Txt("Jasot"), Txt("P2"), Num(7)>> >>]

Notas == [cols |-> <<"nota">>, rows |-> << <<Txt("backup")>> >>]

Sheet(name, df) == [name |-> name, grid |-> to_excel(df)]

\* the workbooks the application may be started on
FullWorkbook == Workbook(<<Sheet(SheetMP, MPStock), Sheet(SheetInj, InjDup),
                           Sheet(SheetProd, ProdA), Sheet("Notas", Notas)>>)

LooseWorkbook == Workbook(<<Sheet(SheetInj, InjNoSku)>>)

InitWorkbooks == {NoWorkbook, FullWorkbook, LooseWorkbook}

SheetNameChoices(t) ==
    {SheetCustom} \cup {default_mapping[i][1] : i \in {j \in DOMAIN default_mapping :
                                                        default_mapping[j][2] = t}}

MappedTables == {TEstoqueMP, TEstoqueInj, TProducao}

DefaultInput == [t \in MappedTables |->
                   default_mapping[CHOOSE i \in DOMAIN default_mapping :
                                     default_mapping[i][2] = t][1]]

SKUs == {"X", ""}
Nomes == {"Widget"}
Qtys == {5, 0 - 2}
ProdEdits == {ProdA, ProdB}
MPEdits == {MPStock, MPLow}
BomM1 == << [mp_id |-> "M1", qty_per_product |-> 1] >>
BomM1M2 == << [mp_id |-> "M1", qty_per_product |-> 1],
              [mp_id |-> "M2", qty_per_product |-> 1] >>
Boms == {BomM1, BomM1M2}
OrderQtys == {5}

NoArgs == [sku |-> "", nome |-> "", qty |-> 0, df |-> EmptyDF, bom |-> <<>>]

\* ------------------------------------------------------------------- init
DataInit ==
    /\ xlsx \in InitWorkbooks
    /\ db = [t \in Tables |-> NoTable]
    /\ db_exists = FALSE
    /\ movimentacao = <<>>
    /\ map_input = DefaultInput
    /\ pc = "idle"
    /\ args = NoArgs
    /\ op = "none"
    /\ result = "ok"
    /\ clock = 0

LockInit ==
    /\ lock = FALSE
    /\ lpc = [c \in 1..NumCallers |-> "idle"]
    /\ calls = [c \in 1..NumCallers |-> 0]

Init == DataInit /\ LockInit

\* -------------------------------------------------- one session's script
\* "Ensure DB exists (import if necessary)", run at the top of every script
\* run, then the tables are loaded (read_table connects: the file exists).
auto_import(d, exists, wb, inp) ==
    IF ~exists /\ wb.state # "absent"
      THEN init_db_from_excel(d, wb, user_mapping(inp))
      ELSE d

\* A widget interaction starts a script run: the top of the script.
Startup ==
    /\ pc = "idle"
    /\ db' = auto_import(db, db_exists, xlsx, map_input)
    /\ db_exists' = TRUE
    /\ pc' = "run"
    /\ op' = "start"
    /\ result' = "running"
    /\ args' = NoArgs
    /\ UNCHANGED <<xlsx, movimentacao, map_input, clock, lockvars>>

\* The run renders its page and ends with no button pressed.
Render ==
    /\ pc = "run"
    /\ pc' = "idle"
    /\ op' = "render"
    /\ result' = "ok"
    /\ UNCHANGED <<xlsx, db, db_exists, movimentacao, map_input, args, clock, lockvars>>

\* The user retypes one sheet name of the sidebar; the rerun it triggers starts
\* with the new name.
EditMapping(t, name) ==
    /\ pc = "idle"
    /\ map_input[t] # name
    /\ map_input' = [map_input EXCEPT ![t] = name]
    /\ db' = auto_import(db, db_exists, xlsx, map_input')
    /\ db_exists' = TRUE
    /\ op' = "edit_map"
    /\ result' = "ok"
    /\ UNCHANGED <<xlsx, movimentacao, pc, args, clock, lockvars>>

\* "Sincronizar Excel -> DB (forcar)": init_db_from_excel(user_mapping); the
\* import-if-necessary below it finds the database file and does nothing.
SyncButton ==
    /\ pc = "idle"
    /\ db' = init_db_from_excel(db, xlsx, user_mapping(map_input))
    /\ db_exists' = TRUE
    /\ op' = "sync"
    /\ result' = "ok"
    /\ UNCHANGED <<xlsx, movimentacao, map_input, pc, args, clock, lockvars>>

\* (faulty variant) the export is left for later: the action returns without it
ExportStep_deferred(at, table, fallback) ==
    /\ pc = at
    /\ ~lock
    /\ result' = "ok"
    /\ pc' = "idle"
    /\ UNCHANGED <<xlsx, db, db_exists, movimentacao, map_input, args, op, clock, lockvars>>

\* with_lock(write_excel_sheets) called by the one session: the wait loop
\* passes when the marker is absent, the marker is written, the body runs and
\* the finally clause unlinks the marker, whether the body returned or raised.
ExportStep(at, table, fallback) ==
    /\ pc = at
    /\ ~lock
    /\ LET r == write_excel_sheets_body(
                    xlsx, << [name |-> sheet_name_for(map_input, table, fallback),
                              df |-> args.df] >>)
       IN /\ xlsx' = r.wb
          /\ result' = IF r.raised THEN "error" ELSE "ok"
    /\ lock' = FALSE
    /\ pc' = "idle"
    /\ UNCHANGED <<db, db_exists, movimentacao, map_input, args, op, clock, lpc, calls>>

\* "Salvar alteracoes na producao": shown when the production table has rows.
SaveProducao(edited) ==
    /\ pc = "run"
    /\ ~df_empty(read_table(db, TProducao))
    /\ db' = write_table(db, TProducao, edited)
    /\ args' = [NoArgs EXCEPT !.df = edited]
    /\ pc' = "prod_export"
    /\ op' = "save_prod"
    /\ UNCHANGED <<xlsx, db_exists, movimentacao, map_input, result, clock, lockvars>>

ExportProducao == ExportStep("prod_export", TProducao, SheetProd)

\* "Salvar Estoque MP"
SaveEstoqueMP(edited_mp) ==
    /\ pc = "run"
    /\ db' = write_table(db, TEstoqueMP, edited_mp)
    /\ args' = [NoArgs EXCEPT !.df = edited_mp]
    /\ pc' = "mp_export"
    /\ op' = "save_mp"
    /\ UNCHANGED <<xlsx, db_exists, movimentacao, map_input, result, clock, lockvars>>

ExportEstoqueMP == ExportStep("mp_export", TEstoqueMP, SheetMP)

\* "Registrar movimentacao", first the INSERT into the movement table
SubmitMov(sku, nome, qty) ==
    /\ pc = "run"
    /\ Len(movimentacao) < MaxMoves
    /\ clock' = clock + 1
    /\ movimentacao' = insert_movement(movimentacao, sku, nome, qty, "ajuste", "op1", clock')
    /\ args' = [NoArgs EXCEPT !.sku = sku, !.nome = nome, !.qty = qty]
    /\ pc' = "mov_stock"
    /\ op' = "mov"
    /\ UNCHANGED <<xlsx, db, db_exists, map_input, result, lockvars>>

\* then read_table, the update of the frame, write_table
MovUpdateStock ==
    /\ pc = "mov_stock"
    /\ LET df == update_stock(read_table(db, TEstoqueInj), args.sku, args.nome, args.qty)
       IN /\ db' = write_table(db, TEstoqueInj, df)
          /\ args' = [args EXCEPT !.df = df]
    /\ pc' = "mov_export"
    /\ UNCHANGED <<xlsx, db_exists, movimentacao, map_input, op, result, clock, lockvars>>

\* then the export of the frame
ExportMov == ExportStep("mov_export", TEstoqueInj, SheetInj)

\* createOrder(productCode, quantity, bom): the feasibility check over the
\* whole order, then the consumption, the log row and the export of both
\* sheets in the same operation.
CreateOrder(produto, quantity, bom) ==
    /\ pc = "run"
    /\ ~lock
    /\ LET stock == read_table(db, TEstoqueMP)
           short == shortages(stock, bom, quantity)
           used == consume_bom(stock, bom, quantity)
           log == append_order(read_table(db, TOrdens), produto, quantity, clock + 1, "bom")
           r == write_excel_sheets_body(
                    xlsx, << [name |-> sheet_name_for(map_input, TEstoqueMP, SheetMP),
                              df |-> used],
                             [name |-> SheetOrdens, df |-> log] >>)
       IN IF short # <<>>
            THEN /\ result' = "error"
                 /\ UNCHANGED <<db, xlsx, clock>>
            ELSE /\ Len(read_table(db, TOrdens).rows) < MaxOrders
                 /\ db' = write_table(write_table(db, TEstoqueMP, used), TOrdens, log)
                 /\ clock' = clock + 1
                 /\ xlsx' = r.wb
                 /\ result' = IF r.raised THEN "error" ELSE "ok"
    /\ args' = [NoArgs EXCEPT !.sku = produto, !.qty = quantity, !.bom = bom]
    /\ lock' = FALSE
    /\ pc' = "idle"
    /\ op' = "order"
    /\ UNCHANGED <<db_exists, movimentacao, map_input, lpc, calls>>

\* ---------------------------------------------------------- lock guard
\* with_lock's wrapper, one step per statement, for concurrent callers (the
\* sessions of the application run as threads of one process).  fn is the
\* wrapped operation: it returns or raises.
Callers == 1..NumCallers

Call(c) ==
    /\ lpc[c] = "idle"
    /\ calls[c] < MaxCalls
    /\ lpc' = [lpc EXCEPT ![c] = "poll"]
    /\ UNCHANGED <<lock, calls, datavars>>

\* (faulty variant) the wait gives up after a while and goes on to the marker
Poll_timeout(c) ==
    /\ lpc[c] = "poll"
    /\ lpc' = [lpc EXCEPT ![c] = "write"]
    /\ UNCHANGED <<lock, calls, datavars>>

\* while LOCK_PATH.exists(): time.sleep(0.05)
Poll(c) ==
    /\ lpc[c] = "poll"
    /\ lpc' = [lpc EXCEPT ![c] = IF lock THEN "poll" ELSE "write"]
    /\ UNCHANGED <<lock, calls, datavars>>

\* LOCK_PATH.write_text("lock")
WriteMarker(c) ==
    /\ lpc[c] = "write"
    /\ lock' = TRUE
    /\ lpc' = [lpc EXCEPT ![c] = "fn"]
    /\ UNCHANGED <<calls, datavars>>

\* return fn(*args, **kwargs)
FnReturn(c) ==
    /\ lpc[c] = "fn"
    /\ lpc' = [lpc EXCEPT ![c] = "finally_ret"]
    /\ UNCHANGED <<lock, calls, datavars>>

\* fn raises
FnRaise(c) ==
    /\ lpc[c] = "fn"
    /\ lpc' = [lpc EXCEPT ![c] = "finally_exc"]
    /\ UNCHANGED <<lock, calls, datavars>>

\* finally: if LOCK_PATH.exists(): ... ; with the marker gone the call ends
FinallyCheck(c) ==
    /\ lpc[c] \in {"finally_ret", "finally_exc"}
    /\ IF lock
         THEN /\ lpc' = [lpc EXCEPT ![c] = "unlink"]
              /\ UNCHANGED calls
         ELSE /\ lpc' = [lpc EXCEPT ![c] = "idle"]
              /\ calls' = [calls EXCEPT ![c] = @ + 1]
    /\ UNCHANGED <<lock, datavars>>

\* try: LOCK_PATH.unlink() except: pass; then the call ends
Unlink(c) ==
    /\ lpc[c] = "unlink"
    /\ lock' = FALSE
    /\ lpc' = [lpc EXCEPT ![c] = "idle"]
    /\ calls' = [calls EXCEPT ![c] = @ + 1]
    /\ UNCHANGED datavars

NextLock ==
    \E c \in Callers :
        \/ Call(c)
        \/ Poll(c)
        \/ WriteMarker(c)
        \/ FnReturn(c)
        \/ FnRaise(c)
        \/ FinallyCheck(c)
        \/ Unlink(c)

InitLock == Init /\ xlsx = NoWorkbook

SpecLock == InitLock /\ [][NextLock]_vars

\* The process exits ungracefully while a caller is between write_text and
\* unlink: the finally clause does not run, the marker stays on disk, and the
\* restarted process's sessions are back before any call.
Kill ==
    /\ \E c \in Callers : lpc[c] \in {"fn", "finally_ret", "finally_exc", "unlink"}
    /\ lpc' = [c \in Callers |-> "idle"]
    /\ UNCHANGED <<lock, calls, datavars>>

NextStale ==
    \/ NextLock
    \/ Kill

\* with_lock's callers, and ungraceful exits of the process
SpecStale == InitLock /\ [][NextStale]_vars

\* --------------------------------------------------------- specifications
\* One session on the default sheet mapping: import, the save handlers and
\* the movement handler.
Next ==
    \/ Startup
    \/ Render
    \/ SyncButton
    \/ \E edited \in ProdEdits : SaveProducao(edited)
    \/ ExportProducao
    \/ \E edited_mp \in MPEdits : SaveEstoqueMP(edited_mp)
    \/ ExportEstoqueMP
    \/ \E sku \in SKUs : \E nome \in Nomes : \E qty \in Qtys : SubmitMov(sku, nome, qty)
    \/ MovUpdateStock
    \/ ExportMov

Spec == Init /\ [][Next]_vars

\* Movements of non-empty SKUs from an empty stock table and an empty ledger.
MovSKUs == {"X", "Y"}

NextMov ==
    \/ Startup
    \/ Render
    \/ \E sku \in MovSKUs : \E nome \in Nomes : \E qty \in Qtys : SubmitMov(sku, nome, qty)
    \/ MovUpdateStock
    \/ ExportMov

\* no workbook, no table, no movement yet
InitMov == Init /\ xlsx = NoWorkbook

SpecMov == InitMov /\ [][NextMov]_vars

\* The import under any sheet mapping the sidebar can hold.
NextSync ==
    \/ Startup
    \/ Render
    \/ \E t \in MappedTables : \E name \in SheetNameChoices(t) : EditMapping(t, name)
    \/ SyncButton
    \/ \E edited \in ProdEdits : SaveProducao(edited)
    \/ ExportProducao
    \/ \E edited_mp \in MPEdits : SaveEstoqueMP(edited_mp)
    \/ ExportEstoqueMP

SpecSync == Init /\ [][NextSync]_vars

\* The three mutating handlers under any sheet mapping the sidebar can hold.
NextExport ==
    \/ Startup
    \/ Render
    \/ \E t \in MappedTables : \E name \in SheetNameChoices(t) : EditMapping(t, name)
    \/ SaveProducao(ProdB)
    \/ ExportProducao
    \/ SaveEstoqueMP(MPLow)
    \/ ExportEstoqueMP
    \/ \E sku \in {"X"} : \E nome \in Nomes : \E qty \in {5} : SubmitMov(sku, nome, qty)
    \/ MovUpdateStock
    \/ ExportMov

SpecExport == Init /\ [][NextExport]_vars

\* Production orders against the raw-material stock.
NextOrder ==
    \/ Startup
    \/ Render
    \/ SyncButton
    \/ \E edited_mp \in MPEdits : SaveEstoqueMP(edited_mp)
    \/ ExportEstoqueMP
    \/ \E q \in OrderQtys : \E bom \in Boms : CreateOrder("P1", q, bom)

SpecOrder == Init /\ [][NextOrder]_vars

\* ----------------------------------------------------------------- claims
InFn == {c \in Callers : lpc[c] = "fn"}

\* C1: of the callers of a with_lock-wrapped operation, at most one is inside
\* the wrapped operation at any time, in every interleaving of their steps.
C1_MutualExclusion == Cardinality(InFn) <= 1

Finishes(c) == lpc[c] \in {"finally_ret", "finally_exc", "unlink"} /\ lpc'[c] = "idle"

\* C8: when a with_lock-wrapped call finishes, by return or by exception, the
\* marker is absent; with every call completed the marker is absent; and the
\* marker is present throughout each call's execution of the wrapped operation.
C8_MarkerDiscipline ==
    [][ /\ \A c \in Callers : Finishes(c) => ~lock'
        /\ (\A c \in Callers : lpc'[c] = "idle") => ~lock'
        /\ \A c \in Callers : lpc'[c] = "fn" => lock' ]_vars

\* the single-sheet dict a handler's export passes to write_excel_sheets
ExportKey ==
    IF pc = "prod_export" THEN sheet_name_for(map_input, TProducao, SheetProd)
    ELSE IF pc = "mp_export" THEN sheet_name_for(map_input, TEstoqueMP, SheetMP)
    ELSE sheet_name_for(map_input, TEstoqueInj, SheetInj)

Exporting == pc \in {"prod_export", "mp_export", "mov_export"} /\ pc' = "idle"

\* C2: write_excel_sheets(sheet_dfs) on an existing workbook leaves every
\* sheet whose name is not a key of sheet_dfs with its content, and once it has
\* returned the sheet named in sheet_dfs holds exactly the given table, under
\* that name once.
C2_WriteSheetsFrame ==
    [][ (Exporting /\ xlsx.state = "ok") =>
          /\ \A n \in sheetnames(xlsx) \ {ExportKey} :
                /\ HasSheet(xlsx', n)
                /\ SheetCount(xlsx', n) = 1
                /\ SheetGrid(xlsx', n) = SheetGrid(xlsx, n)
          /\ result' = "ok" =>
                /\ HasSheet(xlsx', ExportKey)
                /\ SheetCount(xlsx', ExportKey) = 1
                /\ SheetGrid(xlsx', ExportKey) = to_excel(args.df)
                /\ sheetnames(xlsx') = sheetnames(xlsx) \cup {ExportKey} ]_vars

\* C2's case: a movement's export has rewritten the finished-goods sheet of the
\* four-sheet workbook, whose Notas sheet it does not name.
C2_Witness ==
    /\ pc = "idle" /\ op = "mov" /\ result = "ok"
    /\ HasSheet(xlsx, "Notas")
    /\ SheetGrid(xlsx, "Notas") = to_excel(Notas)
    /\ HasSheet(xlsx, SheetInj)
    /\ SheetGrid(xlsx, SheetInj) # to_excel(InjDup)
    /\ SheetGrid(xlsx, SheetInj) = to_excel(args.df)

Qty(df, i) == df.rows[i][ColIndex(df, "quantidade")]

Min(S) == CHOOSE x \in S : \A y \in S : x <= y

UpdatingStock == pc = "mov_stock" /\ pc' = "mov_export"

\* C3: a movement for a SKU that matches more than one row of the stock table
\* adds delta to the first matching row only; every other row keeps its
\* quantity.
C3_FirstMatchOnly ==
    [][ UpdatingStock =>
          LET old == read_table(db, TEstoqueInj)
              new == read_table(db', TEstoqueInj)
          IN (HasCol(old, "sku") /\ args.sku # "" /\ Cardinality(sku_mask(old, args.sku)) > 1)
               => /\ Len(new.rows) = Len(old.rows)
                  /\ \A i \in DOMAIN old.rows :
                       Qty(new, i) = IF i = Min(sku_mask(old, args.sku))
                                       THEN Num(AsFloat(Qty(old, i)) + args.qty)
                                       ELSE Qty(old, i) ]_vars

\* C4: after a movement has been recorded every row of the finished-goods
\* stock table has a quantity >= 0.
C4_NonNegativeStock ==
    (op = "mov" /\ pc \in {"mov_export", "idle"}) =>
        LET df == read_table(db, TEstoqueInj)
        IN \A i \in DOMAIN df.rows : AsFloat(Qty(df, i)) >= 0

IsPrefix(a, b) == Len(a) <= Len(b) /\ \A i \in DOMAIN a : b[i] = a[i]

\* C10: a movement appends exactly one ledger entry, before the stock table is
\* touched, with an id greater than every existing id; no step changes or
\* removes an existing entry; with an empty SKU or a stock table without a sku
\* column the entry is created all the same and the stock update appends one
\* row and leaves every existing row as it was.
C10_LedgerAppendOnly ==
    [][ /\ IsPrefix(movimentacao, movimentacao')
        /\ (pc = "run" /\ pc' = "mov_stock") =>
              /\ Len(movimentacao') = Len(movimentacao) + 1
              /\ \A i \in DOMAIN movimentacao :
                    movimentacao'[Len(movimentacao')].id > movimentacao[i].id
              /\ db' = db
        /\ movimentacao' # movimentacao => (pc = "run" /\ pc' = "mov_stock")
        /\ pc = "mov_stock" =>
              /\ movimentacao # <<>>
              /\ movimentacao[Len(movimentacao)].sku = args.sku
              /\ movimentacao[Len(movimentacao)].qty = args.qty
        /\ UpdatingStock =>
              LET old == read_table(db, TEstoqueInj)
                  new == read_table(db', TEstoqueInj)
              IN (args.sku = "" \/ ~HasCol(old, "sku")) =>
                    /\ Len(new.rows) = Len(old.rows) + 1
                    /\ \A i \in DOMAIN old.rows : \A c \in Range(old.cols) :
                          new.rows[i][ColIndex(new, c)] = old.rows[i][ColIndex(old, c)]
                    /\ new.rows[Len(new.rows)][ColIndex(new, "sku")] = Txt(args.sku)
                    /\ new.rows[Len(new.rows)][ColIndex(new, "quantidade")] = Num(args.qty)
      ]_vars

\* C10's case: the stock table came without a sku column, a movement's entry is
\* in the ledger and its stock update has appended a row after the old one.
C10_Witness ==
    /\ pc = "mov_export"
    /\ movimentacao # <<>>
    /\ LET df == read_table(db, TEstoqueInj)
       IN /\ df.cols = <<"nome", "quantidade", "sku", "unidade", "local">>
          /\ Len(df.rows) = 2
          /\ df.rows[1][ColIndex(df, "sku")] = Null

RECURSIVE LedgerSum(_, _)
LedgerSum(ledger, sku) ==
    IF ledger = <<>> THEN 0
    ELSE (IF Head(ledger).sku = sku THEN Head(ledger).qty ELSE 0)
         + LedgerSum(Tail(ledger), sku)

MovedSKUs == {movimentacao[i].sku : i \in DOMAIN movimentacao}

\* C5: from an empty stock table and an empty ledger, after any sequence of
\* movements of non-empty SKUs, the stock table has exactly one row per SKU
\* moved, holding the sum of the ledger's deltas for that SKU, and the ledger
\* has one entry per call, in call order.
C5_StockMatchesLedger ==
    pc \in {"idle", "run"} =>
        LET df == read_table(db, TEstoqueInj)
        IN /\ Len(df.rows) = Cardinality(MovedSKUs)
           /\ \A s \in MovedSKUs :
                 /\ Cardinality(sku_mask(df, s)) = 1
                 /\ \A i \in sku_mask(df, s) : Qty(df, i) = Num(LedgerSum(movimentacao, s))
           /\ Len(movimentacao) = clock
           /\ \A i \in DOMAIN movimentacao :
                 /\ movimentacao[i].data = i
                 /\ \A j \in DOMAIN movimentacao : i < j => movimentacao[i].id < movimentacao[j].id

\* C5's case: +5 then -2 of the same SKU on the empty table: one row, quantity 3,
\* and two ledger entries in that order.
C5_Witness ==
    /\ pc = "idle"
    /\ Len(movimentacao) = 2
    /\ movimentacao[1].sku = "X" /\ movimentacao[1].qty = 5
    /\ movimentacao[2].sku = "X" /\ movimentacao[2].qty = 0 - 2
    /\ read_table(db, TEstoqueInj).rows = << <<Txt("X"), Txt("Widget"), Num(3), Txt(""), Txt("")>> >>

\* C6: init_db_from_excel(mapping) leaves each table of a pair whose sheet the
\* spreadsheet holds with that sheet's content, whatever the table held, and
\* each table of a pair whose sheet is absent as it was.
C6_ImportBySheet ==
    [][ (op' = "sync" \/ (op' = "start" /\ ~db_exists /\ xlsx.state # "absent")) =>
          LET m == user_mapping(map_input)
          IN \A i \in DOMAIN m :
                IF HasSheet(xlsx, m[i][1])
                  THEN /\ db'[m[i][2]].exists
                       /\ read_table(db', m[i][2]) = read_excel_grid(SheetGrid(xlsx, m[i][1]))
                  ELSE db'[m[i][2]] = db[m[i][2]] ]_vars

\* C6's case: a forced import under a mapping whose raw-material sheet is absent
\* and whose production sheet is present: the production table, edited since,
\* is back to the sheet, and the raw-material table keeps its rows.
C6_Witness ==
    /\ op = "sync"
    /\ ~HasSheet(xlsx, map_input[TEstoqueMP])
    /\ db[TEstoqueMP].exists
    /\ HasSheet(xlsx, map_input[TProducao])
    /\ map_input[TProducao] # map_input[TEstoqueMP]
    /\ read_table(db, TProducao) = read_excel_grid(SheetGrid(xlsx, map_input[TProducao]))
    /\ read_table(db, TProducao) # read_excel_grid(to_excel(ProdA))

HandlerTable == IF op = "save_prod" THEN TProducao
                ELSE IF op = "save_mp" THEN TEstoqueMP ELSE TEstoqueInj

HandlerSheet ==
    IF op = "save_prod" THEN sheet_name_for(map_input, TProducao, SheetProd)
    ELSE IF op = "save_mp" THEN sheet_name_for(map_input, TEstoqueMP, SheetMP)
    ELSE sheet_name_for(map_input, TEstoqueInj, SheetInj)

\* C7: when a mutating action (save production, save raw-material stock,
\* record movement) has completed successfully, the table it wrote and the
\* sheet mapped to that table hold the same content; the export runs in the
\* same action, on the frame the table was written from.
C7_TableAndSheetConverge ==
    /\ (op \in {"save_prod", "save_mp", "mov"} /\ pc = "idle" /\ result = "ok") =>
          /\ db[HandlerTable].exists
          /\ HasSheet(xlsx, HandlerSheet)
          /\ SheetGrid(xlsx, HandlerSheet) = to_excel(read_table(db, HandlerTable))
    /\ pc \in {"prod_export", "mp_export", "mov_export"} =>
          /\ op \in {"save_prod", "save_mp", "mov"}
          /\ read_table(db, HandlerTable) = args.df

\* C7's case: a movement recorded while the finished-goods table is mapped to
\* the sheet Custom has completed and that sheet holds the table.
C7_Witness ==
    /\ op = "mov" /\ pc = "idle" /\ result = "ok"
    /\ map_input[TEstoqueInj] = SheetCustom
    /\ map_input[TEstoqueMP] # SheetCustom /\ map_input[TProducao] # SheetCustom
    /\ HasSheet(xlsx, SheetCustom)
    /\ SheetGrid(xlsx, SheetCustom) = to_excel(read_table(db, TEstoqueInj))
    /\ Len(read_table(db, TEstoqueInj).rows) > 0

ShortOf(stock, item, quantity) ==
    \/ ~\E i \in DOMAIN stock.rows :
           HasCol(stock, "mp_id") /\ stock.rows[i][ColIndex(stock, "mp_id")] = Txt(item.mp_id)
    \/ available(stock, item.mp_id) < item.qty_per_product * quantity

\* C9: an order with a shortage for any BOM component (no stock row matches
\* the component, or its matching rows sum to less than qtyPerUnit * quantity)
\* fails, changes no stock row and appends no production-order log row.
C9_ShortageAborts ==
    [][ (pc = "run" /\ op' = "order") =>
          ((\E k \in DOMAIN args'.bom :
                ShortOf(read_table(db, TEstoqueMP), args'.bom[k], args'.qty))
             => /\ result' = "error"
                /\ db'[TEstoqueMP] = db[TEstoqueMP]
                /\ db'[TOrdens] = db[TOrdens]) ]_vars

\* C9's case: an order needing 5 of M1 has failed against M1 rows that are
\* there and sum to less, and the production-order log is still empty.
C9_Witness ==
    /\ op = "order" /\ pc = "idle" /\ result = "error"
    /\ args.bom = BomM1
    /\ matching_rows(read_table(db, TEstoqueMP), "M1") # <<>>
    /\ available(read_table(db, TEstoqueMP), "M1") < 5
    /\ ~db[TOrdens].exists

\* the marker is on disk and no caller is past the wait loop: nothing is left
\* that would remove it
Stale == lock /\ \A c \in Callers : lpc[c] \in {"idle", "poll"}

\* C11: a call made while the marker exists and nothing removes it never
\* starts the wrapped operation and never returns: it stays in the wait loop,
\* the marker stays, and no call finishes.
C11_StaleMarkerBlocks ==
    /\ \A c \in Callers : [](Stale /\ lpc[c] = "poll" => [](lpc[c] = "poll" /\ lock))
    /\ [][Stale => (Stale' /\ calls' = calls)]_vars

\* C11's case: the process was killed with the marker written, and every
\* session of the restarted process has called and is waiting on the marker.
C11_Witness ==
    /\ Stale
    /\ \A c \in Callers : lpc[c] = "poll"

=============================================================================
